---- MODULE Spec2Model ----
(***************************************************************************)
(* Model of ftp_server.py: the supervisor that main() builds around one    *)
(* pyftpdlib listener.  State is main()'s local variables, the sqlite      *)
(* settings table, the listeners and serving threads of the process, and   *)
(* the part of the host the code observes (ports taken by other processes, *)
(* directories).  Texts are sequences of one-character strings so that     *)
(* strip(), isdigit(), int() and str() are computed, not assumed.          *)
(***************************************************************************)
EXTENDS Integers, Sequences, FiniteSets, TLC

(* ------------------------------ bounds --------------------------------- *)
\* Number of listener/thread identities that can be in use at once.
MaxIds == 2

(* ------------------------------ texts ---------------------------------- *)
Digits == <<"0", "1", "2", "3", "4", "5", "6", "7", "8", "9">>

DecChars == {Digits[i] : i \in 1..Len(Digits)}

\* Characters for which str.isdigit() is true but which are no decimal
\* digit; "sup2" stands for U+00B2 (superscript two).
OtherDigitChars == {"sup2"}

DigitVal(c) == (CHOOSE i \in 1..Len(Digits) : Digits[i] = c) - 1

RECURSIVE lstrip(_)
lstrip(s) == IF s # <<>> /\ Head(s) = " " THEN lstrip(Tail(s)) ELSE s

RECURSIVE rstrip(_)
rstrip(s) ==
    IF s # <<>> /\ s[Len(s)] = " " THEN rstrip(SubSeq(s, 1, Len(s) - 1)) ELSE s

\* str.strip()
strip(s) == rstrip(lstrip(s))

\* str.isdigit(): non-empty and every character is a digit character.
isdigit(s) == s # <<>> /\ \A i \in 1..Len(s) : s[i] \in DecChars \cup OtherDigitChars

\* The part of int(text) after an optional sign.
IntBody(s) == IF s # <<>> /\ Head(s) \in {"-", "+"} THEN Tail(s) ELSE s

\* int(text) returns a value (it raises ValueError otherwise).
IntOk(s) ==
    LET b == IntBody(strip(s))
    IN  b # <<>> /\ \A i \in 1..Len(b) : b[i] \in DecChars

RECURSIVE DecValue(_)
DecValue(b) ==
    IF b = <<>> THEN 0
    ELSE DecValue(SubSeq(b, 1, Len(b) - 1)) * 10 + DigitVal(b[Len(b)])

\* int(text), for a text with IntOk.
IntVal(s) ==
    LET t == strip(s)
    IN  IF t # <<>> /\ Head(t) = "-" THEN 0 - DecValue(IntBody(t))
        ELSE DecValue(IntBody(t))

RECURSIVE StrOfNat(_)
StrOfNat(n) ==
    IF n < 10 THEN <<Digits[n + 1]>>
    ELSE StrOfNat(n \div 10) \o <<Digits[(n % 10) + 1]>>

\* str(n) of an integer.
StrOf(n) == IF n < 0 THEN <<"-">> \o StrOfNat(0 - n) ELSE StrOfNat(n)

(* --------------------------- program constants ------------------------- *)
T_user == <<"u", "s", "e", "r">>
T_12345 == <<"1", "2", "3", "4", "5">>
T_2121 == <<"2", "1", "2", "1">>

\* The defaults init_db inserts.
Defaults == [k \in {"username", "password", "port"} |->
                CASE k = "username" -> T_user
                  [] k = "password" -> T_12345
                  [] k = "port" -> T_2121]

\* Highest port number bind() accepts.
MaxPort == 65535

\* os.getcwd()
Cwd == <<"/", "w">>

\* server = None: the value a failed create_server_instance returns.
None == [id |-> 0, port |-> 0, user |-> <<>>, pwd |-> <<>>, root |-> <<>>]

\* server_thread = None
NoThread == 0

(* ------------------------------ inputs --------------------------------- *)
T_bob == <<"b", "o", "b">>
T_2122 == <<"2", "1", "2", "2">>
D_missing == <<"/", "n">>
D_denied == <<"/", "x">>

UserInputs == {<<>>, <<" ">>, <<" ", "b", "o", "b">>}
PassInputs == {<<>>, <<" ", " ">>, <<"s", "3", " ">>}
PortInputs == {<<>>, <<"x">>, <<"-", "5">>, <<"sup2">>, T_2121, <<" ", "2", "1", "2", "2">>,
               <<"0">>, <<"6", "5", "5", "3", "6">>}
FolderInputs == {<<>>, <<"p">>, D_missing}
FolderArgs == {<<>>, D_missing, D_denied}
PortArgs == {<<>>, <<"x">>, <<"sup2">>, T_2122}

\* Passwords secrets.token_urlsafe(12) may return.
GeneratedPasswords == {<<"g", "1">>, <<"g", "2">>}

\* Directories that exist when the program starts, and those makedirs
\* cannot create.
ExistingDirs == {Cwd, Cwd \o <<"/", "p">>}
Uncreatable == {D_denied}

\* Ports another process may hold.
BusyCandidates == {2121}

\* Contents of ftp_server.db left by earlier runs (or by an older version
\* that still saved the folder); <<>> is a database without rows.
InitialStores ==
    { <<>>,
      [k \in {"username", "password", "port", "folder"} |->
          CASE k = "username" -> T_bob
            [] k = "password" -> <<"s", "3">>
            [] k = "port" -> T_2122
            [] k = "folder" -> D_missing],
      [k \in {"password", "port"} |->
          CASE k = "password" -> <<>>
            [] k = "port" -> T_2121] }

\* Outcomes of get_local_ip(): the UDP probe gives the address, or it fails
\* and the host name resolves, or that lookup raises too.
Discovery == {"probe", "hostname", "raises"}

\* Nothing printed by option 6.
NoOutput == [ip |-> "", port |-> 0, username |-> <<>>, password |-> <<>>]

(* ------------------------------- state --------------------------------- *)
VARIABLES
    pc,             \* position of the main thread
    mode,           \* "interactive" | "noninteractive" | "unset"
    choice,         \* last menu selection read
    inp,            \* last value read for that selection, stripped
    op,             \* menu branch whose restart sequence is running or ran last
    username, password, port, folder,
    server,         \* the listener main() holds, or None
    server_thread,  \* id of the Thread object main() holds, or NoThread
    server_running,
    listeners,      \* listeners of this process whose socket is open
    alive,          \* ids of serving threads that have not finished
    store,          \* settings table: key -> value
    wrote,          \* keys set_setting wrote since the last menu selection
    before,         \* configuration and running flag when that selection was read
    shown,          \* what option 6 printed in this turn of the menu loop
    busy,           \* ports held by other processes
    dirs            \* directories that exist

vars == <<pc, mode, choice, inp, op, username, password, port, folder, server,
          server_thread, server_running, listeners, alive, store, wrote, before, shown,
          busy, dirs>>

config == <<username, password, port, folder>>
supervisor == <<server, server_thread, server_running>>

(* --------------------------- settings store ---------------------------- *)
\* INSERT OR REPLACE of one row.
Upsert(st, key, text) ==
    [k \in DOMAIN st \cup {key} |-> IF k = key THEN text ELSE st[k]]

\* INSERT OR IGNORE of one row.
InsertOrIgnore(st, key, text) ==
    IF key \in DOMAIN st THEN st ELSE Upsert(st, key, text)

\* DELETE FROM settings WHERE key = ...
DeleteKey(st, key) == [k \in DOMAIN st \ {key} |-> st[k]]

\* init_db faulty: the DELETE of the folder row is missing.
init_db_keeps_folder(st) ==
    InsertOrIgnore(
        InsertOrIgnore(InsertOrIgnore(st, "username", Defaults["username"]),
                       "password", Defaults["password"]),
        "port", Defaults["port"])

init_db(st) ==
    InsertOrIgnore(
        InsertOrIgnore(
            InsertOrIgnore(DeleteKey(st, "folder"), "username", Defaults["username"]),
            "password", Defaults["password"]),
        "port", Defaults["port"])

get_setting(st, key, default) == IF key \in DOMAIN st THEN st[key] ELSE default

\* set_setting(key, value) with a text value; str(text) is the text.
set_setting(st, key, text) == Upsert(st, key, text)

Init ==
    /\ pc = "boot"
    /\ mode = "unset"
    /\ choice = "" /\ inp = <<>> /\ op = "none"
    /\ username = <<>> /\ password = <<>> /\ port = 0 /\ folder = <<>>
    /\ server = None /\ server_thread = NoThread /\ server_running = FALSE
    /\ listeners = {} /\ alive = {}
    /\ store \in InitialStores
    /\ wrote = {}
    /\ before = [username |-> <<>>, password |-> <<>>, port |-> 0, folder |-> <<>>,
                 running |-> FALSE]
    /\ shown = NoOutput
    /\ busy \in SUBSET BusyCandidates
    /\ dirs = ExistingDirs

(* ------------------------------ helpers -------------------------------- *)
\* os.path.abspath: a relative path is joined to the working directory.
abspath(t) == IF t # <<>> /\ Head(t) = "/" THEN t ELSE IF t = <<>> THEN Cwd ELSE Cwd \o <<"/">> \o t

\* prompt_with_default with a default that is not None.
prompt_with_default(resp, default) == IF strip(resp) # <<>> THEN strip(resp) ELSE default

\* FTPServer((h, p), handler) binds: the port is in range, no other process
\* holds it and no open listener of this process holds it (port 0 asks for
\* any free port).
Bindable(p, bz, ls) ==
    /\ p \in 0..MaxPort
    /\ p \notin bz
    /\ p = 0 \/ \A l \in ls : l.port # p

UsedIds(ls, al) == {l.id : l \in ls} \cup al

\* Identity of the next FTPServer object and of the thread that serves it.
FreshId(ls, al) ==
    CHOOSE i \in 1..MaxIds : i \notin UsedIds(ls, al) /\ \A j \in 1..(i - 1) : j \in UsedIds(ls, al)

\* create_server_instance faulty: a failed bind still hands back an object.
create_server_instance_keeps_handle(p, user, pwd, folder_path, id, bz, ls) ==
    [id |-> id, port |-> p, user |-> user, pwd |-> pwd, root |-> folder_path]

\* create_server_instance(host, p, user, pwd, folder_path) once add_user has
\* passed: the new listener, or None when FTPServer raises.
create_server_instance(p, user, pwd, folder_path, id, bz, ls) ==
    IF Bindable(p, bz, ls)
    THEN [id |-> id, port |-> p, user |-> user, pwd |-> pwd, root |-> folder_path]
    ELSE None

\* close_all faulty: the listening socket stays open.
close_all_leaves_open(srv, ls) == ls

\* srv.close_all(): the listener's sockets are closed.
close_all(srv, ls) == ls \ {srv}

\* stop_server faulty: the flag is cleared only when the thread was joined.
stop_server_flag_follows_thread(srv) ==
    /\ listeners' = IF srv # None THEN close_all(srv, listeners) ELSE listeners
    /\ IF server_thread # NoThread
       THEN \E finished \in BOOLEAN :
               /\ alive' = IF finished THEN alive \ {server_thread} ELSE alive
               /\ server_running' = (server_running /\ server_thread \in alive')
       ELSE alive' = alive /\ server_running' = server_running
    /\ UNCHANGED server_thread

\* stop_server(srv): close_all, join(timeout=2) on the held thread (which
\* may or may not have finished when the wait ends), server_running = False.
stop_server(srv) ==
    /\ listeners' = IF srv # None THEN close_all(srv, listeners) ELSE listeners
    /\ IF server_thread # NoThread
       THEN \E finished \in BOOLEAN :
               alive' = IF finished THEN alive \ {server_thread} ELSE alive
       ELSE alive' = alive
    /\ server_running' = FALSE
    /\ UNCHANGED server_thread

\* start_server faulty: the thread is started but the flag is not set.
start_server_no_flag(srv) ==
    /\ server_thread' = srv.id
    /\ alive' = alive \cup {srv.id}
    /\ UNCHANGED server_running

\* start_server(srv) for srv that is not None.
start_server(srv) ==
    /\ server_thread' = srv.id
    /\ alive' = alive \cup {srv.id}
    /\ server_running' = TRUE

\* The set_setting call that ends a menu branch: the key it writes, or
\* "" when the branch writes nothing.  failed is "server is None".
PersistKey(o, failed) ==
    CASE o = "1" -> "username"
      [] o = "2" -> "password"
      [] o = "5" /\ failed -> "port"
      [] OTHER -> ""

PersistText(key, u, pw, p) ==
    CASE key = "username" -> u
      [] key = "password" -> pw
      [] OTHER -> StrOf(p)

Persist(o, failed, st, u, pw, p) ==
    IF PersistKey(o, failed) = "" THEN st
    ELSE set_setting(st, PersistKey(o, failed), PersistText(PersistKey(o, failed), u, pw, p))

Written(o, failed) == IF PersistKey(o, failed) = "" THEN {} ELSE {PersistKey(o, failed)}

\* get_local_ip(): the address, or "raise" when the fallback lookup raises.
get_local_ip(d) ==
    CASE d = "probe" -> "lan-ip"
      [] d = "hostname" -> "host-ip"
      [] OTHER -> "raise"

\* The lines option 6 prints.
show_credentials(ip, u, pw, p) == [ip |-> ip, port |-> p, username |-> u, password |-> pw]

\* An uncaught exception ends main(): the process exits, its sockets are
\* closed and its daemon threads end with it.  exc names the exception:
\* "ValueError" (int(), add_user), "BindError" (FTPServer's constructor) or
\* "OSError" (get_local_ip).
Crash(exc) ==
    /\ pc' = exc
    /\ listeners' = {}
    /\ alive' = {}

(* ------------------------------ startup -------------------------------- *)
\* init_db(), the first statement of main().
InitDb ==
    /\ pc = "boot"
    /\ store' = init_db(store)
    /\ pc' = "args"
    /\ UNCHANGED <<mode, choice, inp, op, config, supervisor, listeners, alive, wrote, before, shown, busy, dirs>>

\* Interactive start-up up to the first create_server_instance call.
StartInteractive(resp) ==
    /\ pc = "args"
    /\ mode' = "interactive"
    /\ op' = "0"
    /\ LET ptxt == get_setting(store, "port", T_2121)
       IN  IF IntOk(ptxt)
           THEN /\ folder' = abspath(prompt_with_default(resp, get_setting(store, "folder", Cwd)))
                /\ port' = IntVal(ptxt)
                /\ username' = get_setting(store, "username", T_user)
                /\ password' = get_setting(store, "password", T_12345)
                /\ pc' = "create"
                /\ UNCHANGED <<listeners, alive>>
           ELSE Crash("ValueError") /\ UNCHANGED config
    /\ UNCHANGED <<choice, inp, before, shown, supervisor, store, wrote, busy, dirs>>

\* Non-interactive run from argument parsing to the blocking serve_forever.
StartNonInteractive(folder_arg, port_arg, d) ==
    /\ pc = "args"
    /\ mode' = "noninteractive"
    /\ LET f == abspath(IF folder_arg # <<>> THEN folder_arg
                        ELSE get_setting(store, "folder", Cwd))
           ptxt == IF port_arg # <<>> /\ isdigit(port_arg) THEN port_arg
                   ELSE get_setting(store, "port", T_2121)
           pw == get_setting(store, "password", <<>>)
       IN  IF ~IntOk(ptxt)
           THEN Crash("ValueError") /\ UNCHANGED <<config, server, dirs>>
           ELSE /\ folder' = f
                /\ port' = IntVal(ptxt)
                /\ username' = get_setting(store, "username", T_user)
                /\ IF f \notin dirs /\ f \in Uncreatable
                   THEN /\ pc' = "exit1"
                        /\ password' = pw
                        /\ UNCHANGED <<server, listeners, alive, dirs>>
                   ELSE /\ dirs' = dirs \cup {f}
                        /\ \E g \in GeneratedPasswords :
                              password' = IF pw = <<>> THEN g ELSE pw
                        /\ IF get_local_ip(d) = "raise"
                           THEN \* local_ip = get_local_ip() is not guarded here
                                Crash("OSError") /\ UNCHANGED server
                           ELSE IF Bindable(port', busy, listeners)
                           THEN /\ server' = [id |-> FreshId(listeners, alive), port |-> port',
                                              user |-> username', pwd |-> password', root |-> f]
                                /\ listeners' = {server'}
                                /\ alive' = alive
                                /\ pc' = "serving"
                           ELSE Crash("BindError") /\ UNCHANGED server
    /\ UNCHANGED <<choice, inp, op, before, shown, server_thread, server_running, store, wrote, busy>>

\* An interrupt signal during the blocking serve_forever call.  Either
\* serve_forever deals with it itself, closes its sockets and returns, or
\* KeyboardInterrupt reaches main()'s handler, which logs "Shutting down
\* server" and nothing else.  main() then returns.
Interrupt(raised) ==
    /\ pc = "serving"
    /\ listeners' = IF raised THEN listeners ELSE close_all(server, listeners)
    /\ pc' = "returning"
    /\ UNCHANGED <<mode, choice, inp, op, config, supervisor, alive, store, wrote, before, shown, busy, dirs>>

(* ------------------------- restart sequence ---------------------------- *)
\* stop_server(server) of a menu branch.
StopStep ==
    /\ pc = "stop"
    /\ stop_server(server)
    /\ pc' = IF op = "7" THEN "returning" ELSE "create"
    /\ UNCHANGED <<mode, choice, inp, op, config, server, store, wrote, before, shown, busy, dirs>>

\* server = create_server_instance(...); when it returns None the branch
\* prints the failure, runs its closing set_setting and the loop goes on.
CreateStep ==
    /\ pc = "create"
    /\ IF folder \notin dirs
       THEN \* add_user raises ValueError outside the try block
            Crash("ValueError") /\ UNCHANGED <<server, store, wrote>>
       ELSE /\ \E i \in 1..MaxIds : i \notin UsedIds(listeners, alive)
            /\ server' = create_server_instance(port, username, password, folder,
                                                FreshId(listeners, alive), busy, listeners)
            /\ alive' = alive
            /\ IF server' # None
               THEN /\ listeners' = listeners \cup {server'}
                    /\ pc' = "start"
                    /\ UNCHANGED <<store, wrote>>
               ELSE /\ listeners' = listeners
                    /\ pc' = "menu"
                    /\ store' = Persist(op, TRUE, store, username, password, port)
                    /\ wrote' = wrote \cup Written(op, TRUE)
    /\ UNCHANGED <<mode, choice, inp, op, config, server_thread, server_running, before, shown, busy, dirs>>

\* start_server(server), the success message and the branch's closing
\* set_setting.
StartStep ==
    /\ pc = "start"
    /\ start_server(server)
    /\ store' = Persist(op, FALSE, store, username, password, port)
    /\ wrote' = wrote \cup Written(op, FALSE)
    /\ pc' = "menu"
    /\ UNCHANGED <<mode, choice, inp, op, config, server, listeners, before, shown, busy, dirs>>

\* return from main(), after option 7 or after the non-interactive serve
\* call: the process exits.
Return ==
    /\ pc = "returning"
    /\ pc' = "exited"
    /\ listeners' = {}
    /\ alive' = {}
    /\ UNCHANGED <<mode, choice, inp, op, config, supervisor, store, wrote, before, shown, busy, dirs>>

(* -------------------------------- menu --------------------------------- *)
Choices == {"1", "2", "3", "4", "5", "6", "7", "?"}

\* The values the operator may type after a selection.
InputsFor(c) ==
    CASE c = "1" -> UserInputs
      [] c = "2" -> PassInputs
      [] c = "3" -> PortInputs
      [] c = "4" -> FolderInputs
      [] OTHER -> {<<>>}

\* choice = input(...).strip() and, for options 1-4, the value read next.
ReadSelection(c, raw) ==
    /\ pc = "menu"
    /\ choice' = c
    /\ inp' = IF c \in {"1", "2", "3", "4"} THEN strip(raw) ELSE inp
    /\ before' = [username |-> username, password |-> password, port |-> port,
                  folder |-> folder, running |-> server_running]
    /\ wrote' = {}
    /\ shown' = NoOutput
    /\ pc' = "branch"
    /\ UNCHANGED <<mode, op, config, supervisor, listeners, alive, store, busy, dirs>>

\* What every accepted change does after assigning its field.
BeginRestart ==
    /\ op' = choice
    /\ pc' = "stop"
    /\ UNCHANGED <<listeners, alive>>

Rejected ==
    /\ pc' = "menu"
    /\ UNCHANGED <<op, config, listeners, alive>>

\* 1) Change username
Option1 ==
    /\ pc = "branch" /\ choice = "1"
    /\ IF inp # <<>>
       THEN username' = inp /\ BeginRestart /\ UNCHANGED <<password, port, folder>>
       ELSE Rejected
    /\ UNCHANGED <<mode, choice, inp, supervisor, store, wrote, before, shown, busy, dirs>>

\* 2) Change password
Option2 ==
    /\ pc = "branch" /\ choice = "2"
    /\ IF inp # <<>>
       THEN password' = inp /\ BeginRestart /\ UNCHANGED <<username, port, folder>>
       ELSE Rejected
    /\ UNCHANGED <<mode, choice, inp, supervisor, store, wrote, before, shown, busy, dirs>>

\* 3) Change port
Option3 ==
    /\ pc = "branch" /\ choice = "3"
    /\ IF isdigit(inp)
       THEN IF IntOk(inp)
            THEN port' = IntVal(inp) /\ BeginRestart
                 /\ UNCHANGED <<username, password, folder>>
            ELSE \* int(new_port) raises ValueError
                 Crash("ValueError") /\ UNCHANGED <<op, config>>
       ELSE Rejected
    /\ UNCHANGED <<mode, choice, inp, supervisor, store, wrote, before, shown, busy, dirs>>

\* 4) Change folder
Option4 ==
    /\ pc = "branch" /\ choice = "4"
    /\ IF inp # <<>>
       THEN folder' = abspath(inp) /\ BeginRestart
            /\ UNCHANGED <<username, password, port>>
       ELSE Rejected
    /\ UNCHANGED <<mode, choice, inp, supervisor, store, wrote, before, shown, busy, dirs>>

\* 5) Restart server
Option5 ==
    /\ pc = "branch" /\ choice = "5"
    /\ BeginRestart
    /\ UNCHANGED <<mode, choice, inp, config, supervisor, store, wrote, before, shown, busy, dirs>>

\* Option 6 faulty: get_local_ip() is called outside a try block.
Option6_unguarded(d) ==
    /\ pc = "branch" /\ choice = "6"
    /\ IF get_local_ip(d) = "raise"
       THEN Crash("OSError") /\ UNCHANGED shown
       ELSE /\ shown' = show_credentials(get_local_ip(d), username, password, port)
            /\ pc' = "menu"
            /\ UNCHANGED <<listeners, alive>>
    /\ UNCHANGED <<mode, choice, inp, op, config, supervisor, store, wrote, before, busy, dirs>>

\* 6) Show credentials
Option6(d) ==
    /\ pc = "branch" /\ choice = "6"
    /\ shown' = show_credentials(IF get_local_ip(d) = "raise" THEN "(unknown)"
                                 ELSE get_local_ip(d),
                                 username, password, port)
    /\ pc' = "menu"
    /\ UNCHANGED <<mode, choice, inp, op, config, supervisor, listeners, alive, store, wrote,
                   before, busy, dirs>>

\* 7) Stop server and exit
Option7 ==
    /\ pc = "branch" /\ choice = "7"
    /\ BeginRestart
    /\ UNCHANGED <<mode, choice, inp, config, supervisor, store, wrote, before, shown, busy, dirs>>

\* Any other selection
OptionUnknown ==
    /\ pc = "branch" /\ choice = "?"
    /\ pc' = "menu"
    /\ UNCHANGED <<mode, choice, inp, op, config, supervisor, listeners, alive, store, wrote,
                   before, shown, busy, dirs>>

(* ----------------------------- environment ----------------------------- *)
\* The serving thread of a closed listener leaves serve_forever and ends.
ThreadExit(t) ==
    /\ pc \in {"menu", "branch", "stop", "create", "start"}
    /\ t \in alive
    /\ \A l \in listeners : l.id # t
    /\ alive' = alive \ {t}
    /\ UNCHANGED <<pc, mode, choice, inp, op, config, supervisor, listeners, store, wrote,
                   before, shown, busy, dirs>>

\* run() faulty: its except branch also clears the supervisor's flag.
ThreadCrash_clears_flag(t) ==
    /\ pc \in {"menu", "branch", "stop", "create", "start"}
    /\ t \in alive
    /\ \E l \in listeners : l.id = t
    /\ alive' = alive \ {t}
    /\ server_running' = FALSE
    /\ UNCHANGED <<pc, mode, choice, inp, op, config, server, server_thread, listeners, store,
                   wrote, before, shown, busy, dirs>>

\* serve_forever raises inside run(): the error is logged and the thread
\* ends; the listener's socket stays open.
ThreadCrash(t) ==
    /\ pc \in {"menu", "branch", "stop", "create", "start"}
    /\ t \in alive
    /\ \E l \in listeners : l.id = t
    /\ alive' = alive \ {t}
    /\ UNCHANGED <<pc, mode, choice, inp, op, config, supervisor, listeners, store, wrote,
                   before, shown, busy, dirs>>

\* Another process takes or releases a port while the operator is at the
\* prompt; it cannot take a port an open listener of this process holds.
EnvPort(p) ==
    /\ pc = "menu"
    /\ p \in BusyCandidates
    /\ \A l \in listeners : l.port # p
    /\ busy' = IF p \in busy THEN busy \ {p} ELSE busy \cup {p}
    /\ UNCHANGED <<pc, mode, choice, inp, op, config, supervisor, listeners, alive, store,
                   wrote, before, shown, dirs>>

Next ==
    \/ InitDb
    \/ \E resp \in FolderInputs : StartInteractive(resp)
    \/ \E fa \in FolderArgs, pa \in PortArgs, d \in Discovery : StartNonInteractive(fa, pa, d)
    \/ \E raised \in BOOLEAN : Interrupt(raised)
    \/ StopStep
    \/ CreateStep
    \/ StartStep
    \/ Return
    \/ \E c \in Choices : \E raw \in InputsFor(c) : ReadSelection(c, raw)
    \/ Option1
    \/ Option2
    \/ Option3
    \/ Option4
    \/ Option5
    \/ \E d \in Discovery : Option6(d)
    \/ Option7
    \/ OptionUnknown
    \/ \E t \in 1..MaxIds : ThreadExit(t)
    \/ \E t \in 1..MaxIds : ThreadCrash(t)
    \/ \E p \in BusyCandidates : EnvPort(p)

Spec == Init /\ [][Next]_vars

(* ------------------- stop_server called back to back ------------------- *)
\* Listeners a supervisor may hold when stop_server is entered.
HeldServers ==
    {[id |-> i, port |-> p, user |-> T_user, pwd |-> T_12345, root |-> Cwd] :
        i \in 1..MaxIds, p \in {2121, 2122, 0}}

\* What holds of the supervisor whenever a menu branch enters stop_server.
StopEntry ==
    /\ server # None => server_thread = server.id /\ listeners = {server}
    /\ server = None => listeners = {}
    /\ server_running <=> server # None
    /\ server_thread = NoThread => alive = {}

\* StopEntry is what the program guarantees at its calls of stop_server.
StopEntryHolds == pc = "stop" => StopEntry

InitStop ==
    /\ pc = "call1"
    /\ mode = "interactive"
    /\ choice = "" /\ inp = <<>> /\ op = "none"
    /\ username = T_user /\ password = T_12345 /\ port = 2121 /\ folder = Cwd
    /\ server \in HeldServers \cup {None}
    /\ server_thread \in 1..MaxIds \cup {NoThread}
    /\ server_running \in BOOLEAN
    /\ listeners \in SUBSET HeldServers
    /\ alive \in SUBSET (1..MaxIds)
    /\ StopEntry
    /\ store = init_db(<<>>)
    /\ wrote = {}
    /\ before = [username |-> <<>>, password |-> <<>>, port |-> 0, folder |-> <<>>,
                 running |-> FALSE]
    /\ shown = NoOutput
    /\ busy \in SUBSET BusyCandidates
    /\ dirs = ExistingDirs

\* stop_server(server), called a first and a second time with nothing between.
StopCall ==
    /\ pc \in {"call1", "call2"}
    /\ stop_server(server)
    /\ pc' = IF pc = "call1" THEN "call2" ELSE "called"
    /\ UNCHANGED <<mode, choice, inp, op, config, server, store, wrote, before, shown, busy, dirs>>

NextStop == StopCall

SpecStop == InitStop /\ [][NextStop]_vars

(* ------------------------------ properties ----------------------------- *)
Restarts == {"1", "2", "3", "4", "5"}

\* The step in which a menu branch's create_server_instance call returns
\* or raises.
CreateReturns == pc = "create" /\ pc' # "create"

\* The bind of that call fails.
BindFails == folder \in dirs /\ ~Bindable(port, busy, listeners)

\* C1: in every restart sequence of options 1-5 whose create_server_instance
\* fails to bind, the sequence ends at the menu with server_running false,
\* no open listener (the old one was closed) and server = None.
C1_FailedRestartEndsStopped ==
    [][(CreateReturns /\ op \in Restarts /\ BindFails)
        => (pc' = "menu" /\ server' = None /\ ~server_running' /\ listeners' = {})]_vars

\* A restart of a server that had been started has failed to bind.
C1_Witness ==
    /\ pc = "menu" /\ op \in Restarts
    /\ server = None /\ server_thread # NoThread /\ before.running

\* The key a change of option o is to be saved under.
KeyOf(o) == CASE o = "1" -> "username" [] o = "2" -> "password" [] OTHER -> "port"

CurrentText(o) == CASE o = "1" -> username [] o = "2" -> password [] OTHER -> StrOf(port)

\* C2: after a change of username, password or port whose restart
\* succeeded, the store holds the new value under the corresponding key.
C2_SuccessfulChangeIsStored ==
    (pc = "menu" /\ op \in {"1", "2", "3"} /\ server # None)
        => store[KeyOf(op)] = CurrentText(op)

\* C3: a field change or plain restart whose bind failed has written no
\* store key.
C3_FailedRestartWritesNothing ==
    (pc = "menu" /\ op \in Restarts /\ server = None) => wrote = {}

\* C4: after a field change whose restart failed to bind, username,
\* password, port and folder are what they were before the change.
C4_FailedChangeIsDiscarded ==
    (pc = "menu" /\ op \in {"1", "2", "3", "4"} /\ server = None)
        => /\ username = before.username
           /\ password = before.password
           /\ port = before.port
           /\ folder = before.folder

\* The value typed for selection c fails validation: an empty username or
\* password, or a port text that is not an integer.
FailsValidation(c, t) ==
    \/ c \in {"1", "2"} /\ t = <<>>
    \/ c = "3" /\ ~IntOk(t)

\* C5: a change request that fails validation leaves the configuration,
\* the supervisor, the listener, the serving thread and the store as they
\* were and goes back to the menu without a stop or restart step.
C5_InvalidChangeTouchesNothing ==
    [][(pc = "branch" /\ pc' # "branch" /\ FailsValidation(choice, inp))
        => (pc' = "menu" /\ UNCHANGED <<config, supervisor, listeners, alive, store>>)]_vars

\* A configuration that may be handed to the construction of a listener.
ValidConfig(u, p, f) == u # <<>> /\ p \in 1..MaxPort /\ f \in dirs

\* C6: every configuration handed to create_server_instance, or to
\* FTPServer in non-interactive mode, has a non-empty username, a port in
\* 1..65535 and an existing shared root.
C6_OnlyValidConfigsAreConstructed ==
    /\ pc = "create" => ValidConfig(username, port, folder)
    /\ pc \in {"serving", "BindError"} => ValidConfig(username, port, folder)

\* C7: once init_db has run the store has no row under key folder.
C7_FolderNeverStored == pc # "boot" => "folder" \notin DOMAIN store

\* A change of folder has been applied and its restart has ended.
C7_Witness == pc = "menu" /\ op = "4" /\ folder # before.folder /\ server # None

\* C8: stop_server never raises and ends with server_running false, and a
\* second call right after the first leaves server, server_thread,
\* server_running and the open listeners as the first call left them.
C8_StopIsIdempotent ==
    [][(pc \in {"call1", "call2"} /\ pc' # pc)
        => /\ pc' \in {"call2", "called"}
           /\ ~server_running'
           /\ pc = "call2" => UNCHANGED <<supervisor, listeners>>]_vars

\* stop_server has been called twice on a server that had been running.
C8_Witness == pc = "called" /\ server # None /\ ~server_running /\ listeners = {}

\* C9: at most one listener of the process is open at any time, none is
\* open when create_server_instance is called, and a restart sequence that
\* started Running and kept the port ends Running on that port.
C9_OneListener ==
    /\ Cardinality(listeners) <= 1
    /\ pc = "create" => listeners = {}
    /\ (pc = "menu" /\ op \in Restarts /\ before.running /\ before.port = port)
          => (server_running /\ server \in listeners /\ server.port = port)

\* Option 3 with the port that was already in use has restarted the server.
C9_Witness ==
    /\ pc = "menu" /\ op = "3" /\ before.running /\ before.port = port
    /\ server_running /\ server \in listeners

\* C10: a bind failure never ends the process, in either run mode: the
\* failed attempt ends at the menu with server_running false and no
\* handle, and an attempt on a port that can be bound succeeds.
C10_BindFailureIsNotFatal ==
    [][/\ pc' # "BindError"
       /\ (CreateReturns /\ BindFails)
             => (pc' = "menu" /\ server' = None /\ ~server_running')
       /\ (CreateReturns /\ folder \in dirs /\ Bindable(port, busy, listeners))
             => (pc' = "start" /\ server' \in listeners')]_vars

\* C11: no listener is ever open with an empty password, whatever the
\* store held at program start and whatever the menu was used for.
C11_NoEmptyPassword == \A l \in listeners : l.pwd # <<>>

\* The start-up and the menu branches that end in a restart sequence.
Starts == Restarts \cup {"0"}

\* C12: after every start or restart that succeeded, server_running is
\* true, the listener is open, and the port, username and password that
\* option 6 prints are the ones the listener was constructed with.
C12_StatusMatchesListener ==
    (pc = "menu" /\ op \in Starts /\ server # None)
        => /\ server_running
           /\ server \in listeners
           /\ show_credentials("", username, password, port)
                 = show_credentials("", server.user, server.pwd, server.port)
           /\ shown # NoOutput
                 => /\ shown.port = server.port
                    /\ shown.username = server.user
                    /\ shown.password = server.pwd

\* Option 6 has printed the credentials after a successful change of username.
C12_Witness ==
    /\ pc = "menu" /\ op = "1" /\ server # None /\ server_running
    /\ shown # NoOutput /\ shown.username = server.user

\* C13: option 6 never runs while a stop/create/start sequence is in
\* flight, and what it prints is not torn: it prints the current port and
\* credentials, which belong to the open listener when server_running is
\* true, and no listener is open when server_running is false.
C13_StatusSnapshotIsConsistent ==
    [][/\ pc' \in {"stop", "create", "start"} => shown' = NoOutput
       /\ (pc = "branch" /\ choice = "6" /\ pc' # "branch")
             => /\ shown'.port = port /\ shown'.username = username
                /\ shown'.password = password
                /\ server_running
                      => /\ server \in listeners
                         /\ server.port = shown'.port
                         /\ server.user = shown'.username
                         /\ server.pwd = shown'.password
                /\ ~server_running => listeners = {}]_vars

\* Option 6 has printed the credentials after a port change whose restart
\* failed.
C13_Witness ==
    /\ pc = "menu" /\ op = "3" /\ server = None /\ ~server_running
    /\ shown # NoOutput /\ shown.port = port

\* C14: option 6 changes neither the configuration, the supervisor, the
\* listeners and threads nor the store, and returns to the menu, also when
\* get_local_ip raises.
C14_StatusIsPureRead ==
    [][(pc = "branch" /\ choice = "6" /\ pc' # "branch")
        => (pc' = "menu" /\ UNCHANGED <<config, supervisor, listeners, alive, store>>)]_vars

\* Option 6 has printed "(unknown)" for the address while a server runs.
C14_Witness == pc = "menu" /\ shown.ip = "(unknown)" /\ server_running

\* C15: in non-interactive mode, when main() returns after an interrupt
\* the listener has already been closed by an orderly stop.
C15_InterruptStopsInOrder ==
    (mode = "noninteractive" /\ pc = "returning") => listeners = {}

\* A restart has failed on a port that another process holds.
FailedOnBusyPort == pc = "menu" /\ op \in Restarts /\ server = None /\ port \in busy

\* C16 as stated: after such a failure a supervisor that was stopped is
\* still stopped, and one that was running still runs its previous
\* listener.
C16_FailedRestartKeepsPrevious ==
    FailedOnBusyPort
        => IF before.running
           THEN server_running /\ \E l \in listeners : l.port = before.port
           ELSE ~server_running

\* C16 amended: after such a failure the supervisor is stopped whether or
\* not a configuration was live before: server_running is false, the
\* previous listener is closed and server is None.
C16_FailedRestartStopsPrevious ==
    FailedOnBusyPort => (~server_running /\ listeners = {} /\ server = None)

\* The restart of a running server has failed on a port another process holds.
C16_Witness == FailedOnBusyPort /\ before.running /\ server_thread # NoThread

\* C17: while a sequence is in flight no selection is read and the
\* configuration is not assigned, selections are read at the menu prompt
\* only, and a step of a serving thread changes none of username,
\* password, port, folder, server, server_thread, server_running.
C17_OneTransitionAtATime ==
    [][/\ pc \in {"stop", "create", "start", "returning"}
             => UNCHANGED <<choice, inp, op, config>>
       /\ pc # "menu" => UNCHANGED <<choice, inp, before>>
       /\ (pc' = pc /\ alive' # alive) => UNCHANGED <<config, supervisor>>]_vars

\* A serving thread is alive while a restart sequence is between its stop
\* and its create step.
C17_Witness == pc = "create" /\ op \in Restarts /\ alive # {}

\* C18: at most one serving thread is alive at any time.
C18_OneServingThread == Cardinality(alive) <= 1

\* C19: whenever server_running is true the thread of the current server
\* is alive and its listener is open.
C19_RunningMeansServing ==
    server_running => (server_thread \in alive /\ server \in listeners)

\* C20: when stop_server returns, server_running is false and the
\* supervisor holds no reference to the stopped listener's thread.
C20_StopClearsHandle ==
    [][(pc = "stop" /\ pc' # "stop")
        => (~server_running' /\ server_thread' = NoThread)]_vars
====
